---- MODULE Spec2Model ----
(***************************************************************************)
(* Model of the evaluation aggregator (run_static_evaluation.py) and of    *)
(* the quality gate checker (check_quality_gates.py).                      *)
(*                                                                         *)
(* Conventions                                                             *)
(*  - a dict is a record that carries every key the code reads; a key that *)
(*    is missing from the dict holds None (<<>>), a present key holds      *)
(*    Some(v) (<<v>>);                                                     *)
(*  - pass rates are exact rationals <<num, den>> (percent), similarities  *)
(*    are integers in hundredths, hallucination thresholds are percent;    *)
(*    floating point rounding is not modelled;                             *)
(*  - an entry of passed_checks / failed / warnings is the message         *)
(*    template together with the test id and category it names.            *)
(***************************************************************************)
EXTENDS Integers, Sequences, FiniteSets, TLC

VARIABLES
    \* QualityGateChecker and the checker program
    config,          \* self.config
    results,         \* the parameter of evaluate()
    failed,          \* self.failed
    warnings,        \* self.warnings
    passed_checks,   \* self.passed_checks
    checks,          \* the list built in evaluate(): one boolean per check run
    ret,             \* the value evaluate() returned
    gpc,             \* position of the checker
    checker_exit,    \* exit code of the checker program
    ran,             \* history: the checks entered by the current evaluate() call, in order
    stale,           \* history: the lists held entries when the current evaluate() call began
    \* StaticEvaluator and the runner program
    test_cases,      \* the parameter of evaluate_all()
    acc_results,     \* the local list results of evaluate_all()
    passed_count,    \* the local counter of evaluate_all()
    summary,         \* the dict evaluate_all() returned
    rpc,             \* position of the runner
    runner_exit,     \* exit code of the runner program
    file,            \* the persisted results file
    \* what the programs print or post
    verbose,         \* --verbose of the checker program
    report_text,     \* the report the checker program printed
    pr_comment       \* the comment create_pr_comment built from the results file

gate_vars == <<config, results, failed, warnings, passed_checks, checks, ret, gpc,
               checker_exit, ran, stale>>
runner_vars == <<test_cases, acc_results, passed_count, summary, rpc, runner_exit>>
out_vars == <<verbose, report_text, pr_comment>>
vars == <<gate_vars, runner_vars, file, out_vars>>

----------------------------------------------------------------------------
(* Optional values: a missing dict key / a present dict key.                *)
None == <<>>
Some(v) == <<v>>
Has(f) == f # <<>>
Val(f) == f[1]
Get(f, default) == IF Has(f) THEN Val(f) ELSE default

----------------------------------------------------------------------------
(* Bounds of the model.                                                     *)
MaxResults == 2

----------------------------------------------------------------------------
(* QualityConfig                                                            *)
DefaultMinPassRate == 95
DefaultMinSimilarity == 85
DefaultMaxHallucination == 2

QualityConfig(mpr, mss, mhr, cats) ==
    [min_pass_rate |-> mpr, min_semantic_similarity |-> mss,
     max_hallucination_rate |-> mhr, critical_categories |-> cats]

DefaultConfig ==
    QualityConfig(DefaultMinPassRate, DefaultMinSimilarity,
                  DefaultMaxHallucination, {"fraud_detection", "security"})

(* A configuration given on the command line of the checker.               *)
CliConfig == QualityConfig(90, 80, 50, {"transfer", "unknown"})

Configs == {DefaultConfig, CliConfig}

----------------------------------------------------------------------------
(* Findings: the three lists of the checker.                                *)
Entry(check, text, tid, cat) ==
    [check |-> check, text |-> text, test_id |-> tid, category |-> cat]

Findings(f, w, p) == [failed |-> f, warnings |-> w, passed_checks |-> p]

(* Outcome of one check: it returned b, or it raised.                       *)
Returned(b, fnd) == [raised |-> FALSE, ret |-> b, findings |-> fnd]
Raised(fnd) == [raised |-> TRUE, ret |-> FALSE, findings |-> fnd]

AddFailed(fnd, e) == [fnd EXCEPT !.failed = Append(@, e)]
AddWarning(fnd, e) == [fnd EXCEPT !.warnings = Append(@, e)]
AddPassed(fnd, e) == [fnd EXCEPT !.passed_checks = Append(@, e)]

----------------------------------------------------------------------------
(* check_pass_rate                                                          *)
RateGeq(rate, threshold) == rate[1] >= threshold * rate[2]

judge_pass_rate(fnd, rate, cfg) ==
    IF RateGeq(rate, cfg.min_pass_rate)
    THEN Returned(TRUE, AddPassed(fnd, Entry("pass_rate", "Pass rate >= threshold", "", "")))
    ELSE Returned(FALSE, AddFailed(fnd, Entry("pass_rate", "Pass rate below threshold", "", "")))

(* check_pass_rate that passes by default when the rate cannot be computed *)
check_pass_rate_default_pass(fnd, res, cfg) ==
    IF Has(res.pass_rate)
    THEN judge_pass_rate(fnd, Val(res.pass_rate), cfg)
    ELSE IF Has(res.passed) /\ Has(res.total_tests)
         THEN IF Val(res.total_tests) = 0
              THEN Raised(fnd)
              ELSE judge_pass_rate(fnd, <<Val(res.passed) * 100, Val(res.total_tests)>>, cfg)
         ELSE Returned(TRUE, AddWarning(fnd,
                  Entry("pass_rate", "Cannot calculate pass rate - missing data", "", "")))

check_pass_rate(fnd, res, cfg) ==
    IF Has(res.pass_rate)
    THEN judge_pass_rate(fnd, Val(res.pass_rate), cfg)
    ELSE IF Has(res.passed) /\ Has(res.total_tests)
         THEN IF Val(res.total_tests) = 0
              THEN Raised(fnd)    \* ZeroDivisionError at passed / total_tests
              ELSE judge_pass_rate(fnd, <<Val(res.passed) * 100, Val(res.total_tests)>>, cfg)
         ELSE Returned(FALSE, AddFailed(fnd,
                  Entry("pass_rate", "Cannot calculate pass rate - missing data", "", "")))

----------------------------------------------------------------------------
(* check_critical_tests                                                     *)
ResultCategory(r) == Get(r.category, "unknown")
(* the legacy field consulted first *)
ResultPassed_correct_first(r) == Get(r.correct, Get(r.passed, FALSE))

ResultPassed(r) == Get(r.passed, Get(r.correct, FALSE))

RECURSIVE critical_loop(_, _, _, _)
(* acc = [findings, all_critical_passed, critical_count] after test_results[1..i-1] *)
critical_loop(test_results, i, acc, cfg) ==
    IF i > Len(test_results) THEN acc
    ELSE LET result == test_results[i]
             category == ResultCategory(result)
         IN IF category \in cfg.critical_categories
            THEN IF ~ResultPassed(result)
                 THEN critical_loop(test_results, i + 1,
                        [findings |-> AddFailed(acc.findings,
                            Entry("critical", "Critical test failed",
                                  Get(result.test_id, "unknown"), category)),
                         all_critical_passed |-> FALSE,
                         critical_count |-> acc.critical_count + 1], cfg)
                 ELSE critical_loop(test_results, i + 1,
                        [acc EXCEPT !.critical_count = @ + 1], cfg)
            ELSE critical_loop(test_results, i + 1, acc, cfg)

check_critical_tests_lenient(fnd, res, cfg) ==
    LET test_results == Get(res.results, <<>>)
    IN IF test_results = <<>>
       THEN Returned(TRUE, AddWarning(fnd,
                Entry("critical", "No detailed results for critical test check", "", "")))
       ELSE LET acc == critical_loop(test_results, 1,
                         [findings |-> fnd, all_critical_passed |-> TRUE,
                          critical_count |-> 0], cfg)
            IN IF acc.critical_count > 0
               THEN IF acc.all_critical_passed
                    THEN Returned(TRUE, AddPassed(acc.findings,
                             Entry("critical", "All critical tests passed", "", "")))
                    ELSE Returned(TRUE, acc.findings)
               ELSE Returned(acc.all_critical_passed, AddWarning(acc.findings,
                        Entry("critical", "No critical tests found", "", "")))

check_critical_tests(fnd, res, cfg) ==
    LET test_results == Get(res.results, <<>>)
    IN IF test_results = <<>>
       THEN Returned(TRUE, AddWarning(fnd,
                Entry("critical", "No detailed results for critical test check", "", "")))
       ELSE LET acc == critical_loop(test_results, 1,
                         [findings |-> fnd, all_critical_passed |-> TRUE,
                          critical_count |-> 0], cfg)
            IN IF acc.critical_count > 0
               THEN IF acc.all_critical_passed
                    THEN Returned(TRUE, AddPassed(acc.findings,
                             Entry("critical", "All critical tests passed", "", "")))
                    ELSE Returned(FALSE, acc.findings)
               ELSE Returned(acc.all_critical_passed, AddWarning(acc.findings,
                        Entry("critical", "No critical tests found", "", "")))

----------------------------------------------------------------------------
(* check_semantic_similarity                                                *)
RECURSIVE gather_similarities_both(_, _)
gather_similarities_both(test_results, i) ==
    IF i > Len(test_results) THEN <<>>
    ELSE LET result == test_results[i]
             rest == gather_similarities_both(test_results, i + 1)
             flat == IF Has(result.semantic_similarity)
                     THEN <<Val(result.semantic_similarity)>> ELSE <<>>
         IN IF Has(result.metrics) /\ Has(Val(result.metrics).semantic_similarity)
            THEN <<Val(Val(result.metrics).semantic_similarity)>> \o flat \o rest
            ELSE flat \o rest

RECURSIVE gather_similarities(_, _)
gather_similarities(test_results, i) ==
    IF i > Len(test_results) THEN <<>>
    ELSE LET result == test_results[i]
             rest == gather_similarities(test_results, i + 1)
         IN IF Has(result.metrics) /\ Has(Val(result.metrics).semantic_similarity)
            THEN <<Val(Val(result.metrics).semantic_similarity)>> \o rest
            ELSE IF Has(result.semantic_similarity)
                 THEN <<Val(result.semantic_similarity)>> \o rest
                 ELSE rest

RECURSIVE SumSeq(_)
SumSeq(s) == IF s = <<>> THEN 0 ELSE Head(s) + SumSeq(Tail(s))

check_semantic_similarity(fnd, res, cfg) ==
    LET test_results == Get(res.results, <<>>)
    IN IF test_results = <<>>
       THEN Returned(TRUE, AddWarning(fnd,
                Entry("similarity", "No detailed results for similarity check", "", "")))
       ELSE LET similarities == gather_similarities(test_results, 1)
            IN IF similarities = <<>>
               THEN Returned(TRUE, AddWarning(fnd,
                        Entry("similarity", "No similarity scores found", "", "")))
               ELSE \* sum / len >= threshold
                    IF SumSeq(similarities) >= cfg.min_semantic_similarity * Len(similarities)
                    THEN Returned(TRUE, AddPassed(fnd,
                             Entry("similarity", "Avg semantic similarity >= threshold", "", "")))
                    ELSE Returned(FALSE, AddFailed(fnd,
                             Entry("similarity", "Avg semantic similarity below threshold", "", "")))

----------------------------------------------------------------------------
(* check_hallucination_rate                                                 *)

(* str(rule).lower() of a rule-validation entry: the rendered dict holds    *)
(* the lower-cased description; descriptions are atoms of the model.        *)
str_rule_lower(rule) ==
    CASE rule.rule = "No Hallucination" -> "no hallucination"
      [] rule.rule = "HALLUCINATION free" -> "hallucination free"
      [] rule.rule = "Contains balance amount" -> "contains balance amount"
      [] OTHER -> rule.rule

MentionsHallucination(rule) ==
    str_rule_lower(rule) \in {"no hallucination", "hallucination free"}

(* the inner for ... break: some rule mentions hallucination and is not passed *)
rule_hit(rules) ==
    \E k \in 1..Len(rules) :
        MentionsHallucination(rules[k]) /\ ~Get(rules[k].passed, TRUE)

result_hallucinations(result) ==
    (IF Has(result.metrics) /\ Has(Val(result.metrics).hallucination)
        /\ Val(Val(result.metrics).hallucination)
     THEN 1 ELSE 0)
    +
    (IF Has(result.rule_validation) /\ rule_hit(Val(result.rule_validation))
     THEN 1 ELSE 0)

RECURSIVE count_hallucinations(_, _)
count_hallucinations(test_results, i) ==
    IF i > Len(test_results) THEN 0
    ELSE result_hallucinations(test_results[i]) + count_hallucinations(test_results, i + 1)

check_hallucination_rate(fnd, res, cfg) ==
    LET test_results == Get(res.results, <<>>)
    IN IF test_results = <<>>
       THEN Returned(TRUE, AddWarning(fnd,
                Entry("hallucination", "No detailed results for hallucination check", "", "")))
       ELSE LET hallucinations == count_hallucinations(test_results, 1)
                total == Len(test_results)
            IN \* hallucinations / total <= threshold
               IF hallucinations * 100 <= cfg.max_hallucination_rate * total
               THEN Returned(TRUE, AddPassed(fnd,
                        Entry("hallucination", "Hallucination rate <= threshold", "", "")))
               ELSE Returned(FALSE, AddFailed(fnd,
                        Entry("hallucination", "Hallucination rate above threshold", "", "")))

----------------------------------------------------------------------------
(* get_decision                                                             *)
get_decision(f) ==
    IF f = <<>> THEN "APPROVED"
    ELSE IF Len(f) <= 2 THEN "CONDITIONAL"
    ELSE "BLOCKED"

----------------------------------------------------------------------------
(* The results objects handed to the checker: the JSON document of         *)
(* --results.  Every key the checker reads may be missing.                 *)
Metrics(ss, st, sp, h) ==
    [semantic_similarity |-> ss, similarity_threshold |-> st,
     similarity_passed |-> sp, hallucination |-> h]

TestResult(tid, cat, inp, exp, gen, p, c, m, fs, rv) ==
    [test_id |-> tid, category |-> cat, input |-> inp, expected |-> exp,
     generated |-> gen, passed |-> p, correct |-> c, metrics |-> m,
     semantic_similarity |-> fs, rule_validation |-> rv]

RuleOutcome(desc, p) == [rule |-> desc, passed |-> p]

Summary(pr, p, f, t, rs) ==
    [pass_rate |-> pr, passed |-> p, failed |-> f, total_tests |-> t, results |-> rs]

(* <<test_id, category, passed, correct>>                                   *)
IdentityParts ==
    { <<Some("test_003"), Some("fraud_detection"), Some(TRUE), None>>,
      <<Some("test_003"), Some("fraud_detection"), Some(FALSE), Some(TRUE)>>,
      <<Some("test_003"), Some("fraud_detection"), None, Some(TRUE)>>,
      <<None, Some("fraud_detection"), None, None>>,
      <<Some("test_007"), Some("transfer"), Some(FALSE), None>>,
      <<Some("test_007"), None, Some(FALSE), None>> }

(* <<metrics present, metrics.semantic_similarity, semantic_similarity>>    *)
SimilarityParts ==
    { <<TRUE, Some(90), None>>,
      <<TRUE, Some(80), Some(90)>>,
      <<TRUE, None, Some(90)>>,
      <<FALSE, None, Some(80)>>,
      <<FALSE, None, None>> }

(* <<metrics.hallucination, rule_validation>>                               *)
HallucinationParts ==
    { <<None, None>>,
      <<Some(TRUE), None>>,
      <<Some(TRUE), Some(<<RuleOutcome("No Hallucination", Some(FALSE))>>)>>,
      <<Some(FALSE), Some(<<RuleOutcome("Contains balance amount", Some(FALSE)),
                     RuleOutcome("HALLUCINATION free", Some(FALSE)),
                     RuleOutcome("No Hallucination", Some(FALSE))>>)>>,
      <<None, Some(<<RuleOutcome("No Hallucination", Some(TRUE))>>)>>,
      <<None, Some(<<RuleOutcome("HALLUCINATION free", None)>>)>> }

DefaultIdentity == <<Some("test_003"), Some("fraud_detection"), Some(TRUE), None>>
DefaultSimilarity == <<TRUE, Some(90), None>>
DefaultHallucination == <<None, None>>

MakeResult(a, s, h) ==
    TestResult(a[1], a[2], None, None, None, a[3], a[4],
               IF s[1] THEN Some(Metrics(s[2], None, None, h[1])) ELSE None,
               s[3], h[2])

(* One part at a time departs from a result that passes every check.        *)
ResultObjects ==
    { MakeResult(a, DefaultSimilarity, DefaultHallucination) : a \in IdentityParts }
    \cup { MakeResult(DefaultIdentity, s, DefaultHallucination) : s \in SimilarityParts }
    \cup { MakeResult(DefaultIdentity, DefaultSimilarity, h) : h \in HallucinationParts }

SeqsUpTo(S, n) == UNION { [1..k -> S] : k \in 0..n }

(* <<pass_rate, passed, failed, total_tests>>                               *)
AggregateParts ==
    { <<Some(<<100, 1>>), None, None, None>>,
      <<Some(<<95, 1>>), None, None, None>>,
      <<Some(<<90, 1>>), Some(2), Some(0), Some(2)>>,
      <<None, None, None, None>>,
      <<None, Some(1), None, None>>,
      <<None, Some(0), Some(0), Some(0)>>,
      <<None, Some(9), Some(1), Some(10)>>,
      <<None, Some(2), Some(0), Some(2)>> }

----------------------------------------------------------------------------
(* QualityGateChecker                                                       *)
(* the parameter of evaluate() outside a call *)
NoResults == Summary(None, None, None, None, None)

CurrentFindings == Findings(failed, warnings, passed_checks)

(* __init__: the lists of a freshly constructed checker                     *)
InitFindings == Findings(<<>>, <<>>, <<>>)

(* evaluate() without the three assignments at entry *)
EvaluateReset_keep == Findings(failed, warnings, passed_checks)

(* evaluate(): the three assignments at entry                               *)
EvaluateReset == Findings(<<>>, <<>>, <<>>)

All(bs) == \A k \in 1..Len(bs) : bs[k]

GateIdle == gpc \in {"idle", "returned", "raised"}

RunCheck(name, outcome, next) ==
    /\ ran' = Append(ran, name)
    /\ failed' = outcome.findings.failed
    /\ warnings' = outcome.findings.warnings
    /\ passed_checks' = outcome.findings.passed_checks
    /\ IF outcome.raised
       THEN gpc' = "raised" /\ checks' = checks /\ results' = NoResults
       ELSE gpc' = next /\ checks' = Append(checks, outcome.ret) /\ results' = results
    /\ UNCHANGED <<config, ret, checker_exit, stale, runner_vars, file, out_vars>>

EvaluateBegin(res) ==
    /\ GateIdle
    /\ results' = res
    /\ failed' = EvaluateReset.failed
    /\ warnings' = EvaluateReset.warnings
    /\ passed_checks' = EvaluateReset.passed_checks
    /\ checks' = <<>>
    /\ ret' = None
    /\ gpc' = "check_pass_rate"
    /\ ran' = <<>>
    /\ stale' = (failed # <<>> \/ warnings # <<>> \/ passed_checks # <<>>)

StepPassRate ==
    /\ gpc = "check_pass_rate"
    /\ RunCheck("check_pass_rate", check_pass_rate(CurrentFindings, results, config), "check_critical_tests")

StepCriticalTests ==
    /\ gpc = "check_critical_tests"
    /\ RunCheck("check_critical_tests", check_critical_tests(CurrentFindings, results, config), "check_semantic_similarity")

StepSemanticSimilarity ==
    /\ gpc = "check_semantic_similarity"
    /\ RunCheck("check_semantic_similarity", check_semantic_similarity(CurrentFindings, results, config), "check_hallucination_rate")

StepHallucinationRate ==
    /\ gpc = "check_hallucination_rate"
    /\ RunCheck("check_hallucination_rate", check_hallucination_rate(CurrentFindings, results, config), "all")

EvaluateReturn ==
    /\ gpc = "all"
    /\ ret' = Some(All(checks))
    /\ gpc' = "returned"
    /\ results' = NoResults
    /\ UNCHANGED <<config, failed, warnings, passed_checks, checks, checker_exit,
                   ran, stale, runner_vars, file, out_vars>>

EvaluateInput ==
    /\ GateIdle
    /\ \E a \in AggregateParts, k \in 0..(MaxResults + 1) :
         IF k > MaxResults
         THEN EvaluateBegin(Summary(a[1], a[2], a[3], a[4], None))
         ELSE \E q \in [1..k -> ResultObjects] :
                 EvaluateBegin(Summary(a[1], a[2], a[3], a[4], Some(q)))
    /\ UNCHANGED <<config, checker_exit, runner_vars, file, out_vars>>

GateInit ==
    /\ config \in Configs
    /\ results = NoResults
    /\ failed = InitFindings.failed
    /\ warnings = InitFindings.warnings
    /\ passed_checks = InitFindings.passed_checks
    /\ checks = <<>>
    /\ ret = None
    /\ gpc = "idle"
    /\ checker_exit = None
    /\ ran = <<>>
    /\ stale = FALSE
    /\ test_cases = <<>>
    /\ acc_results = <<>>
    /\ passed_count = 0
    /\ summary = None
    /\ rpc = "idle"
    /\ runner_exit = None
    /\ file = None
    /\ verbose = FALSE
    /\ report_text = None
    /\ pr_comment = None

GateNext ==
    \/ EvaluateInput
    \/ StepPassRate
    \/ StepCriticalTests
    \/ StepSemanticSimilarity
    \/ StepHallucinationRate
    \/ EvaluateReturn

SpecGate == GateInit /\ [][GateNext]_vars

----------------------------------------------------------------------------
(* StaticEvaluator: texts are sequences of characters.                      *)
MaxCases == 2

SimilarityThreshold == 85
RunnerPassRateGate == 95

LowerChar(c) ==
    CASE c = "B" -> "b"
      [] c = "N" -> "n"
      [] c = "O" -> "o"
      [] OTHER -> c

lower(t) == [k \in 1..Len(t) |-> LowerChar(t[k])]

(* a in b, for two texts *)
IsSubstring(a, b) ==
    \E i \in 0..(Len(b) - Len(a)) : \A k \in 1..Len(a) : b[i + k] = a[k]

IsDigit(c) == c \in {"0", "1", "2", "3", "4", "5", "6", "7", "8", "9"}

Dollars == <<"d", "o", "l", "l", "a", "r", "s">>

Rule(type, keywords, min, max, format, description) ==
    [type |-> type, keywords |-> keywords, min |-> min, max |-> max,
     format |-> format, description |-> description]

TestCase(tid, cat, inp, exp, ctx, rules) ==
    [test_id |-> tid, category |-> cat, input |-> inp, expected |-> exp,
     context |-> ctx, rules |-> rules]

rule_passed_case_sensitive(response, rule) ==
    LET rule_type == Val(rule.type)
        keywords == Get(rule.keywords, <<>>)
        any_keyword ==
            \E k \in 1..Len(keywords) : IsSubstring(lower(keywords[k]), response)
    IN CASE rule_type = "contains" -> any_keyword
         [] rule_type = "not_contains" -> ~any_keyword
         [] rule_type = "length" ->
                /\ Get(rule.min, 0) <= Len(response)
                /\ (Has(rule.max) => Len(response) <= Val(rule.max))
         [] rule_type = "format" ->
                IF rule.format = Some("currency")
                THEN (\E k \in 1..Len(response) : response[k] = "$")
                     \/ IsSubstring(Dollars, lower(response))
                ELSE IF rule.format = Some("number")
                     THEN \E k \in 1..Len(response) : IsDigit(response[k])
                     ELSE FALSE
         [] OTHER -> FALSE

(* validate_rules: the outcome of one rule that has a type                  *)
rule_passed(response, rule) ==
    LET rule_type == Val(rule.type)
        keywords == Get(rule.keywords, <<>>)
        any_keyword ==
            \E k \in 1..Len(keywords) : IsSubstring(lower(keywords[k]), lower(response))
    IN CASE rule_type = "contains" -> any_keyword
         [] rule_type = "not_contains" -> ~any_keyword
         [] rule_type = "length" ->
                /\ Get(rule.min, 0) <= Len(response)
                /\ (Has(rule.max) => Len(response) <= Val(rule.max))
         [] rule_type = "format" ->
                IF rule.format = Some("currency")
                THEN (\E k \in 1..Len(response) : response[k] = "$")
                     \/ IsSubstring(Dollars, lower(response))
                ELSE IF rule.format = Some("number")
                     THEN \E k \in 1..Len(response) : IsDigit(response[k])
                     ELSE FALSE
         [] OTHER -> FALSE

(* validate_rules: rule['type'] raises KeyError on a rule without a type    *)
validate_rules(response, rules) ==
    IF \E k \in 1..Len(rules) : ~Has(rules[k].type)
    THEN [raised |-> TRUE, outcomes |-> <<>>]
    ELSE [raised |-> FALSE,
          outcomes |-> [k \in 1..Len(rules) |->
              RuleOutcome(Get(rules[k].description, Val(rules[k].type)),
                          Some(rule_passed(response, rules[k])))]]

single_result_strict(test_case, generated, similarity, rule_results) ==
    LET all_rules_passed == \A k \in 1..Len(rule_results) : Val(rule_results[k].passed)
        similarity_passed == similarity > SimilarityThreshold
    IN TestResult(Some(Get(test_case.test_id, "unknown")),
                  None,
                  Some(Get(test_case.input, "")),
                  Some(Get(test_case.expected, "")),
                  Some(generated),
                  Some(similarity_passed /\ all_rules_passed),
                  None,
                  Some(Metrics(Some(similarity), Some(SimilarityThreshold),
                               Some(similarity_passed), None)),
                  None,
                  Some(rule_results))

(* the dict evaluate_single returns *)
single_result(test_case, generated, similarity, rule_results) ==
    LET all_rules_passed == \A k \in 1..Len(rule_results) : Val(rule_results[k].passed)
        similarity_passed == similarity >= SimilarityThreshold
    IN TestResult(Some(Get(test_case.test_id, "unknown")),
                  None,
                  Some(Get(test_case.input, "")),
                  Some(Get(test_case.expected, "")),
                  Some(generated),
                  Some(similarity_passed /\ all_rules_passed),
                  None,
                  Some(Metrics(Some(similarity), Some(SimilarityThreshold),
                               Some(similarity_passed), None)),
                  None,
                  Some(rule_results))

(* evaluate_single, given what the two collaborators answered               *)
evaluate_single(test_case, generated, similarity) ==
    LET rules == Get(test_case.rules, <<>>)
        validation == IF rules # <<>> THEN validate_rules(generated, rules)
                      ELSE [raised |-> FALSE, outcomes |-> <<>>]
    IN IF validation.raised
       THEN [raised |-> TRUE, result |-> <<>>]
       ELSE [raised |-> FALSE,
             result |-> <<single_result(test_case, generated, similarity,
                                        validation.outcomes)>>]

(* the pass rate as a fraction instead of a percentage *)
summary_pass_rate_fraction(tcs, count) ==
    IF tcs # <<>> THEN <<count, Len(tcs)>> ELSE <<0, 1>>

(* evaluate_all: pass_rate = (passed_count / len(test_cases)) * 100 if test_cases else 0 *)
summary_pass_rate(tcs, count) ==
    IF tcs # <<>> THEN <<count * 100, Len(tcs)>> ELSE <<0, 1>>

(* evaluate_all: the dict returned                                          *)
evaluate_all_summary(tcs, res, count) ==
    Summary(Some(summary_pass_rate(tcs, count)), Some(count),
            Some(Len(tcs) - count), Some(Len(tcs)), Some(res))

----------------------------------------------------------------------------
(* The results file: json.dump and json.load.  Booleans are written as the *)
(* tokens true / false; numbers and strings as themselves; a missing key   *)
(* stays missing.                                                           *)
JsonBool(f) == IF Has(f) THEN Some(IF Val(f) THEN "true" ELSE "false") ELSE None
JsonParseBool(f) == IF Has(f) THEN Some(Val(f) = "true") ELSE None

(* writing = TRUE: json.dump; writing = FALSE: json.load *)
JsonValue(f, writing) == IF writing THEN JsonBool(f) ELSE JsonParseBool(f)

JsonMetrics(m, writing) ==
    IF Has(m)
    THEN Some([Val(m) EXCEPT !.similarity_passed = JsonValue(@, writing),
                             !.hallucination = JsonValue(@, writing)])
    ELSE None

JsonRules(rv, writing) ==
    IF Has(rv)
    THEN Some([k \in 1..Len(Val(rv)) |->
                  [Val(rv)[k] EXCEPT !.passed = JsonValue(@, writing)]])
    ELSE None

JsonResult(r, writing) ==
    [r EXCEPT !.passed = JsonValue(@, writing), !.correct = JsonValue(@, writing),
              !.metrics = JsonMetrics(@, writing),
              !.rule_validation = JsonRules(@, writing)]

JsonDocument(doc, writing) ==
    [doc EXCEPT !.results =
        IF Has(@) THEN Some([k \in 1..Len(Val(@)) |-> JsonResult(Val(@)[k], writing)])
        ELSE None]

json_dump(obj) == JsonDocument(obj, TRUE)
json_load(text) == JsonDocument(text, FALSE)

----------------------------------------------------------------------------
(* Test cases and the answers of the collaborators.                         *)
Responses ==
    { <<"B", "a", "l", " ", "$", "5">>,
      <<"N", "O">>,
      <<"7", " ", "d", "o", "l", "l", "a", "r", "s">> }

Similarities == {80, 85}

TestCaseSet ==
    { TestCase(Some("test_001"), Some("transfer"), Some("balance?"), Some("Bal $5"),
               Some("assistant"),
               Some(<<Rule(Some("contains"), Some(<<(<<"B", "a", "l">>), (<<"$", "9">>)>>),
                           None, None, None, Some("Contains balance amount")),
                      Rule(Some("format"), None, None, None, Some("currency"), None),
                      Rule(Some("length"), None, Some(3), None, None, None)>>)),
      TestCase(Some("test_003"), Some("fraud_detection"), Some("suspicious charge"),
               Some("freeze"), Some("security assistant"),
               Some(<<Rule(Some("not_contains"), Some(<<(<<"n", "o">>)>>),
                           None, None, None, Some("No Hallucination")),
                      Rule(Some("format"), None, None, None, Some("number"), None)>>)),
      TestCase(None, None, None, None, None, None),
      TestCase(Some("test_008"), Some("security"), Some("policy?"), Some("notice"), None,
               Some(<<Rule(Some("regex"), None, None, None, None, None),
                      Rule(Some("format"), None, None, None, Some("json"), None),
                      Rule(Some("length"), None, None, Some(2), None, Some("Short")),
                      Rule(Some("contains"), Some(<<(<<"d", "O">>), (<<"$", "9">>)>>),
                           None, None, None, None),
                      Rule(Some("not_contains"), Some(<<(<<"d", "O">>), (<<"$", "9">>)>>),
                           None, None, None, None),
                      Rule(Some("contains"), Some(<<>>), None, None, None, None),
                      Rule(Some("not_contains"), None, None, None, None, None)>>)),
      TestCase(Some("test_009"), Some("transfer"), Some("transfer?"), Some("done"), None,
               Some(<<Rule(None, Some(<<(<<"b", "a", "l">>)>>), None, None, None, None)>>)) }

----------------------------------------------------------------------------
(* The runner program: main() of run_static_evaluation.py                   *)

(* one iteration of the loop of evaluate_all                                *)
EvaluateSingleStep_count_all ==
    /\ rpc = "loop"
    /\ Len(acc_results) < Len(test_cases)
    /\ \E generated \in Responses, similarity \in Similarities :
         LET outcome == evaluate_single(test_cases[Len(acc_results) + 1],
                                        generated, similarity)
         IN IF outcome.raised
            THEN /\ rpc' = "raised"
                 /\ UNCHANGED <<acc_results, passed_count>>
            ELSE /\ acc_results' = Append(acc_results, Val(outcome.result))
                 /\ passed_count' = passed_count + 1
                 /\ rpc' = "loop"
    /\ UNCHANGED <<test_cases, summary, runner_exit, file, gate_vars, out_vars>>

EvaluateSingleStep ==
    /\ rpc = "loop"
    /\ Len(acc_results) < Len(test_cases)
    /\ \E generated \in Responses, similarity \in Similarities :
         LET outcome == evaluate_single(test_cases[Len(acc_results) + 1],
                                        generated, similarity)
         IN IF outcome.raised
            THEN /\ rpc' = "raised"
                 /\ UNCHANGED <<acc_results, passed_count>>
            ELSE /\ acc_results' = Append(acc_results, Val(outcome.result))
                 /\ passed_count' =
                       IF Val(Val(outcome.result).passed)
                       THEN passed_count + 1 ELSE passed_count
                 /\ rpc' = "loop"
    /\ UNCHANGED <<test_cases, summary, runner_exit, file, gate_vars, out_vars>>

(* generate_response or semantic_similarity raises                          *)
ExternalCallFails ==
    /\ rpc = "loop"
    /\ Len(acc_results) < Len(test_cases)
    /\ rpc' = "raised"
    /\ UNCHANGED <<test_cases, acc_results, passed_count, summary, runner_exit,
                   file, gate_vars, out_vars>>

EvaluateAllReturn ==
    /\ rpc = "loop"
    /\ Len(acc_results) = Len(test_cases)
    /\ summary' = Some(evaluate_all_summary(test_cases, acc_results, passed_count))
    /\ rpc' = "returned"
    /\ UNCHANGED <<test_cases, acc_results, passed_count, runner_exit, file, gate_vars, out_vars>>

SaveResults ==
    /\ rpc = "returned"
    /\ file' = Some(json_dump(Val(summary)))
    /\ rpc' = "saved"
    /\ UNCHANGED <<test_cases, acc_results, passed_count, summary, runner_exit, gate_vars, out_vars>>

RunnerExit ==
    /\ rpc = "saved"
    /\ runner_exit' =
          Some(IF ~RateGeq(Val(Val(summary).pass_rate), RunnerPassRateGate) THEN 1 ELSE 0)
    /\ rpc' = "exited"
    /\ UNCHANGED <<test_cases, acc_results, passed_count, summary, file, gate_vars, out_vars>>

(* the except clause reporting success *)
RunnerFails_exit_zero ==
    /\ rpc = "raised"
    /\ runner_exit' = Some(0)
    /\ rpc' = "exited"
    /\ UNCHANGED <<test_cases, acc_results, passed_count, summary, file, gate_vars, out_vars>>

(* except Exception: sys.exit(1) *)
RunnerFails ==
    /\ rpc = "raised"
    /\ runner_exit' = Some(1)
    /\ rpc' = "exited"
    /\ UNCHANGED <<test_cases, acc_results, passed_count, summary, file, gate_vars, out_vars>>

----------------------------------------------------------------------------
(* The checker program: main() of check_quality_gates.py, run on the file  *)
(* the runner left.                                                         *)
CheckerMain ==
    /\ rpc = "exited"
    /\ gpc = "idle"
    /\ \E cfg \in Configs :
         /\ config' = cfg
         /\ IF file = None
            THEN \* load_results raises FileNotFoundError
                 /\ checker_exit' = Some(1)
                 /\ gpc' = "exited"
                 /\ UNCHANGED <<results, failed, warnings, passed_checks, checks,
                                ret, ran, stale>>
            ELSE /\ EvaluateBegin(json_load(Val(file)))
                 /\ UNCHANGED checker_exit
    /\ UNCHANGED <<runner_vars, file, out_vars>>

(* report(): the lines of the report                                        *)
ReportLine(section, text, item) == [section |-> section, text |-> text, item |-> item]

ReportItems(section, entries) ==
    [k \in 1..Len(entries) |-> ReportLine(section, "item", Some(entries[k]))]

ReportBlank == ReportLine("frame", "", None)
ReportRule == ReportLine("frame", "====", None)

report_warnings_always(f, w, p, v) ==
    <<ReportRule, ReportLine("frame", "QUALITY GATE DECISION", None), ReportRule,
      ReportBlank, ReportLine("decision", get_decision(f), None), ReportBlank>>
    \o (IF p # <<>> /\ v
        THEN <<ReportLine("passed", "Passed Checks:", None)>>
             \o ReportItems("passed", p) \o <<ReportBlank>>
        ELSE <<>>)
    \o (IF f # <<>>
        THEN <<ReportLine("failed", "Failed Checks:", None)>>
             \o ReportItems("failed", f) \o <<ReportBlank>>
        ELSE <<>>)
    \o (IF w # <<>>
        THEN <<ReportLine("warnings", "Warnings:", None)>>
             \o ReportItems("warnings", w) \o <<ReportBlank>>
        ELSE <<>>)
    \o (IF f = <<>> /\ w = <<>>
        THEN <<ReportLine("affirmation", "All quality gates passed!", None),
               ReportLine("affirmation", "Ready for production deployment", None),
               ReportBlank>>
        ELSE <<>>)
    \o <<ReportRule>>

report(f, w, p, v) ==
    <<ReportRule, ReportLine("frame", "QUALITY GATE DECISION", None), ReportRule,
      ReportBlank, ReportLine("decision", get_decision(f), None), ReportBlank>>
    \o (IF p # <<>> /\ v
        THEN <<ReportLine("passed", "Passed Checks:", None)>>
             \o ReportItems("passed", p) \o <<ReportBlank>>
        ELSE <<>>)
    \o (IF f # <<>>
        THEN <<ReportLine("failed", "Failed Checks:", None)>>
             \o ReportItems("failed", f) \o <<ReportBlank>>
        ELSE <<>>)
    \o (IF w # <<>> /\ v
        THEN <<ReportLine("warnings", "Warnings:", None)>>
             \o ReportItems("warnings", w) \o <<ReportBlank>>
        ELSE <<>>)
    \o (IF f = <<>> /\ w = <<>>
        THEN <<ReportLine("affirmation", "All quality gates passed!", None),
               ReportLine("affirmation", "Ready for production deployment", None),
               ReportBlank>>
        ELSE <<>>)
    \o <<ReportRule>>

(* main: report = checker.report(verbose=args.verbose); print(report)       *)
CheckerReport ==
    /\ gpc = "returned"
    /\ \E v \in BOOLEAN :
         /\ verbose' = v
         /\ report_text' = Some(report(failed, warnings, passed_checks, v))
    /\ gpc' = "reported"
    /\ UNCHANGED <<config, results, failed, warnings, passed_checks, checks, ret,
                   checker_exit, ran, stale, runner_vars, file, pr_comment>>

CheckerExit_conditional_ok ==
    /\ gpc \in {"reported", "raised"}
    /\ checker_exit' =
          Some(IF gpc = "reported" /\ get_decision(failed) # "BLOCKED" THEN 0 ELSE 1)
    /\ gpc' = "exited"
    /\ UNCHANGED <<config, results, failed, warnings, passed_checks, checks, ret,
                   ran, stale, runner_vars, file, out_vars>>

CheckerExit ==
    /\ gpc \in {"reported", "raised"}
    /\ checker_exit' =
          Some(IF gpc = "reported" /\ get_decision(failed) = "APPROVED" THEN 0 ELSE 1)
    /\ gpc' = "exited"
    /\ UNCHANGED <<config, results, failed, warnings, passed_checks, checks, ret,
                   ran, stale, runner_vars, file, out_vars>>

----------------------------------------------------------------------------
(* post_pr_results.py: the comment built from the results file              *)
PrApprovedRate == 95
PrConditionalRate == 90

normalize_results(res) ==
    LET passed == Get(res.passed, 0)
        nfailed == Get(res.failed, 0)
        counts == [passed |-> passed, failed |-> nfailed,
                   total_tests |-> Get(res.total_tests, passed + nfailed)]
    IN IF Has(res.pass_rate)
       THEN [raised |-> FALSE, pass_rate |-> Val(res.pass_rate), counts |-> counts]
       ELSE IF Has(res.passed) /\ Has(res.total_tests)
            THEN IF Val(res.total_tests) = 0
                 THEN [raised |-> TRUE, pass_rate |-> <<0, 1>>, counts |-> counts]
                 ELSE [raised |-> FALSE,
                       pass_rate |-> <<Val(res.passed) * 100, Val(res.total_tests)>>,
                       counts |-> counts]
            ELSE [raised |-> FALSE, pass_rate |-> <<0, 1>>, counts |-> counts]

create_pr_comment(res) ==
    LET norm == normalize_results(res)
        band == IF RateGeq(norm.pass_rate, PrApprovedRate) THEN 1
                ELSE IF RateGeq(norm.pass_rate, PrConditionalRate) THEN 2 ELSE 3
    IN [raised |-> norm.raised,
        status |-> CASE band = 1 -> "PASSED" [] band = 2 -> "WARNING" [] OTHER -> "FAILED",
        decision |-> CASE band = 1 -> "APPROVED FOR MERGE"
                       [] band = 2 -> "CONDITIONAL APPROVAL"
                       [] OTHER -> "BLOCKED FROM MERGE",
        tests_passed |-> <<norm.counts.passed, norm.counts.total_tests>>,
        tests_failed |-> <<norm.counts.total_tests - norm.counts.passed,
                           norm.counts.total_tests>>]

(* main of the comment poster, after the checker has run on the same file   *)
CreatePrComment ==
    /\ rpc = "exited"
    /\ gpc = "exited"
    /\ file # None
    /\ pr_comment = None
    /\ pr_comment' = Some(create_pr_comment(json_load(Val(file))))
    /\ UNCHANGED <<gate_vars, runner_vars, file, verbose, report_text>>

Init ==
    /\ config = DefaultConfig
    /\ results = NoResults
    /\ failed = InitFindings.failed
    /\ warnings = InitFindings.warnings
    /\ passed_checks = InitFindings.passed_checks
    /\ checks = <<>>
    /\ ret = None
    /\ gpc = "idle"
    /\ checker_exit = None
    /\ ran = <<>>
    /\ stale = FALSE
    /\ test_cases \in SeqsUpTo(TestCaseSet, MaxCases)
    /\ acc_results = <<>>
    /\ passed_count = 0
    /\ summary = None
    /\ rpc = "loop"
    /\ runner_exit = None
    /\ file = None
    /\ verbose = FALSE
    /\ report_text = None
    /\ pr_comment = None

Next ==
    \/ EvaluateSingleStep
    \/ ExternalCallFails
    \/ EvaluateAllReturn
    \/ SaveResults
    \/ RunnerExit
    \/ RunnerFails
    \/ CheckerMain
    \/ StepPassRate
    \/ StepCriticalTests
    \/ StepSemanticSimilarity
    \/ StepHallucinationRate
    \/ EvaluateReturn
    \/ CheckerReport
    \/ CheckerExit
    \/ CreatePrComment

Spec == Init /\ [][Next]_vars

----------------------------------------------------------------------------
(* The checker program and the comment poster on an arbitrary results file  *)
(* (SpecChecker): the file is absent or holds any results object.           *)
ResultsFiles ==
    {None}
    \cup { Some(json_dump(Summary(a[1], a[2], a[3], a[4], None))) : a \in AggregateParts }
    \cup { Some(json_dump(Summary(a[1], a[2], a[3], a[4], Some(q)))) :
             a \in AggregateParts, q \in SeqsUpTo(ResultObjects, MaxResults) }

CheckerInit ==
    /\ config = DefaultConfig
    /\ results = NoResults
    /\ failed = InitFindings.failed
    /\ warnings = InitFindings.warnings
    /\ passed_checks = InitFindings.passed_checks
    /\ checks = <<>>
    /\ ret = None
    /\ gpc = "idle"
    /\ checker_exit = None
    /\ ran = <<>>
    /\ stale = FALSE
    /\ test_cases = <<>>
    /\ acc_results = <<>>
    /\ passed_count = 0
    /\ summary = None
    /\ rpc = "exited"
    /\ runner_exit = None
    /\ file \in ResultsFiles
    /\ verbose = FALSE
    /\ report_text = None
    /\ pr_comment = None

CheckerNext ==
    \/ CheckerMain
    \/ StepPassRate
    \/ StepCriticalTests
    \/ StepSemanticSimilarity
    \/ StepHallucinationRate
    \/ EvaluateReturn
    \/ CheckerReport
    \/ CheckerExit
    \/ CreatePrComment

SpecChecker == CheckerInit /\ [][CheckerNext]_vars

----------------------------------------------------------------------------
(* Properties of the quality gate checker (SpecGate).                       *)

NumFalse(bs) == Cardinality({ k \in 1..Len(bs) : ~bs[k] })

DecisionTier(n) ==
    IF n = 0 THEN "APPROVED" ELSE IF n <= 2 THEN "CONDITIONAL" ELSE "BLOCKED"

(* C1: after evaluate() the decision is a function of the number of checks *)
(* that failed: 0 -> APPROVED, 1 or 2 -> CONDITIONAL, 3 or 4 -> BLOCKED.   *)
C1_DecisionByFailedChecks ==
    gpc = "returned" => get_decision(failed) = DecisionTier(NumFalse(checks))

CheckOrder ==
    <<"check_pass_rate", "check_critical_tests",
      "check_semantic_similarity", "check_hallucination_rate">>

(* C3: every evaluate() call runs the four checks, in the order pass rate, *)
(* critical category, semantic similarity, hallucination rate, and returns *)
(* the conjunction of the four results.                                    *)
C3_AllFourChecksRun ==
    gpc \in {"returned", "raised"} =>
        /\ ran = CheckOrder
        /\ Len(checks) = 4
        /\ ret = Some(checks[1] /\ checks[2] /\ checks[3] /\ checks[4])

(* The lists a freshly constructed checker holds after evaluate(res).      *)
FreshRun(cfg, res) ==
    LET o1 == check_pass_rate(InitFindings, res, cfg)
        o2 == check_critical_tests(o1.findings, res, cfg)
        o3 == check_semantic_similarity(o2.findings, res, cfg)
        o4 == check_hallucination_rate(o3.findings, res, cfg)
    IN IF o1.raised THEN o1.findings
       ELSE IF o2.raised THEN o2.findings
       ELSE IF o3.raised THEN o3.findings
       ELSE o4.findings

(* C4: whatever calls came before on the same instance, when an           *)
(* evaluate() call ends (it returns, or a check raises) the three lists    *)
(* are the lists a freshly constructed checker with the same configuration *)
(* holds after evaluating this call's input only.                           *)
C4_NoLeakage ==
    [][(gpc \notin {"returned", "raised"} /\ gpc' \in {"returned", "raised"}) =>
          Findings(failed', warnings', passed_checks') = FreshRun(config, results)]_vars

C4_Witness ==
    /\ gpc = "returned"
    /\ stale
    /\ failed = <<>>
    /\ warnings = <<>>

(* C5: after evaluate() the three lists hold exactly four entries in total *)
(* and failed holds at most four.                                           *)
C5_FourEntries ==
    gpc = "returned" =>
        /\ Len(failed) + Len(warnings) + Len(passed_checks) = 4
        /\ Len(failed) <= 4

(* C6: evaluate() completes without raising on every results object.       *)
C6_NeverRaises == gpc # "raised"

(* C7: the pass-rate check returns true iff a rate is obtained (the        *)
(* pass_rate field, else 100 * passed / total_tests) and it is at least    *)
(* min_pass_rate; with neither source it records the missing-data failure  *)
(* and returns false; it records a passed check only when it passes.       *)
C7_PassRate ==
    /\ gpc = "check_critical_tests" =>
        LET explicit == results.pass_rate # <<>>
            derived == ~explicit /\ results.passed # <<>> /\ results.total_tests # <<>>
            reached ==
                IF explicit
                THEN results.pass_rate[1][1] >= config.min_pass_rate * results.pass_rate[1][2]
                ELSE /\ derived
                     /\ results.total_tests[1] > 0
                     /\ 100 * results.passed[1] >= config.min_pass_rate * results.total_tests[1]
        IN /\ checks = <<reached>>
           /\ reached <=> (Len(passed_checks) = 1 /\ failed = <<>>)
           /\ ~reached <=> (Len(failed) = 1 /\ passed_checks = <<>>)
           /\ (~explicit /\ ~derived) =>
                 failed = <<Entry("pass_rate", "Cannot calculate pass rate - missing data", "", "")>>
           /\ warnings = <<>>
    /\ gpc = "raised" => passed_checks = <<>>

C7_Witness ==
    /\ gpc = "check_critical_tests"
    /\ results.pass_rate = <<>>
    /\ results.total_tests = <<>>
    /\ results.passed # <<>>
    /\ checks = <<FALSE>>

C8_Category(r) == IF r.category = <<>> THEN "unknown" ELSE r.category[1]

C8_CriticalFailure(r) ==
    /\ C8_Category(r) \in config.critical_categories
    /\ ~(IF r.passed # <<>> THEN r.passed[1]
         ELSE IF r.correct # <<>> THEN r.correct[1] ELSE FALSE)

C8_IsCriticalEntry(e) == e.check = "critical"

(* C8: the critical-category check returns false iff some detailed result  *)
(* of a critical category is not marked passed (passed, else correct);     *)
(* every such result adds one failure entry with its test id and category; *)
(* without detailed results or without a critical result the check returns *)
(* true and records a warning instead of a failure.                         *)
C8_CriticalCheck ==
    gpc = "check_semantic_similarity" =>
        LET trs == IF results.results = <<>> THEN <<>> ELSE results.results[1]
            bad == SelectSeq(trs, C8_CriticalFailure)
            nocritical ==
                \A i \in 1..Len(trs) : C8_Category(trs[i]) \notin config.critical_categories
        IN /\ checks[2] = (bad = <<>>)
           /\ SelectSeq(failed, C8_IsCriticalEntry) =
                [k \in 1..Len(bad) |->
                    Entry("critical", "Critical test failed",
                          IF bad[k].test_id = <<>> THEN "unknown" ELSE bad[k].test_id[1],
                          C8_Category(bad[k]))]
           /\ nocritical =>
                /\ checks[2]
                /\ Len(SelectSeq(warnings, C8_IsCriticalEntry)) = 1
           /\ ~nocritical => SelectSeq(warnings, C8_IsCriticalEntry) = <<>>

C8_Witness ==
    /\ gpc = "check_semantic_similarity"
    /\ checks[2] = FALSE
    /\ Len(SelectSeq(failed, C8_IsCriticalEntry)) = 2
    /\ \E i \in 1..Len(results.results[1]) :
          /\ results.results[1][i].passed = <<FALSE>>
          /\ results.results[1][i].correct = <<TRUE>>

(* C9: the hallucination count takes each detailed result at most once, so *)
(* it never exceeds the number of detailed results.                         *)
C9_CountAtMostOnce ==
    gpc = "check_hallucination_rate" =>
        LET trs == IF results.results = <<>> THEN <<>> ELSE results.results[1]
        IN count_hallucinations(trs, 1) <= Len(trs)

----------------------------------------------------------------------------
(* Properties of the aggregator and of the runner -> file -> checker path  *)
(* (Spec).                                                                  *)

(* C2: when a test case of a critical category has a TestResult that did   *)
(* not pass, the critical-category check, run on the summary as persisted  *)
(* and reloaded, fails.                                                     *)
C2_CriticalFailureCaught ==
    (gpc = "check_semantic_similarity" /\ file # <<>>) =>
        ((\E i \in 1..Len(test_cases) :
              /\ test_cases[i].category # <<>>
              /\ test_cases[i].category[1] \in config.critical_categories
              /\ acc_results[i].passed = <<FALSE>>)
          => checks[2] = FALSE)

C11_FailurePropagates ==
    /\ rpc = "raised" =>
        /\ summary = <<>>
        /\ file = <<>>
        /\ Len(acc_results) < Len(test_cases)
        /\ passed_count =
              Cardinality({ i \in 1..Len(acc_results) : acc_results[i].passed = <<TRUE>> })
        /\ runner_exit = <<>>
    /\ (rpc = "exited" /\ summary = <<>>) =>
        /\ file = <<>>
        /\ runner_exit = <<1>>
        /\ Len(acc_results) < Len(test_cases)

C11_Witness ==
    /\ rpc = "exited"
    /\ summary = <<>>
    /\ Len(test_cases) = 2
    /\ Len(acc_results) = 1
    /\ test_cases[2].test_id = <<"test_003">>
    /\ runner_exit = <<1>>

----------------------------------------------------------------------------
(* C12: the checker program exits with code 0 exactly when evaluate()       *)
(* returned and the decision is APPROVED; it exits with code 1 on           *)
(* CONDITIONAL, on BLOCKED, when the results file is absent and when        *)
(* evaluate() raised.                                                       *)
C12_ExitCode ==
    gpc = "exited" =>
        /\ checker_exit \in {<<0>>, <<1>>}
        /\ checker_exit = <<0>> <=>
              (file # <<>> /\ ret # <<>> /\ get_decision(failed) = "APPROVED")
        /\ (file = <<>> \/ ret = <<>>) => checker_exit = <<1>>
        /\ (ret # <<>> /\ get_decision(failed) \in {"CONDITIONAL", "BLOCKED"})
              => checker_exit = <<1>>

C12_Witness ==
    /\ gpc = "exited"
    /\ file # <<>>
    /\ ret # <<>>
    /\ get_decision(failed) = "CONDITIONAL"
    /\ checker_exit = <<1>>

----------------------------------------------------------------------------
(* C13: validate_rules never raises: for every response and the rule list   *)
(* of every test case the batch has reached, it returns one outcome per     *)
(* rule in the order of the rules, and a rule whose kind or format name is  *)
(* not recognized is not passed.                                            *)
C13_KnownKinds == {"contains", "not_contains", "length", "format"}

C13_KnownFormats == {"currency", "number"}

C13_Reached ==
    { i \in 1..Len(test_cases) :
        i <= Len(acc_results) + (IF rpc \in {"raised"} THEN 1 ELSE 0) }

C13_NeverRaises ==
    \A i \in C13_Reached, response \in Responses :
        LET rules == Get(test_cases[i].rules, <<>>)
            validation == validate_rules(response, rules)
        IN /\ ~validation.raised
           /\ Len(validation.outcomes) = Len(rules)
           /\ \A k \in 1..Len(rules) :
                /\ Has(rules[k].description) =>
                     validation.outcomes[k].rule = Val(rules[k].description)
                /\ (Has(rules[k].type) /\ Val(rules[k].type) \notin C13_KnownKinds) =>
                     validation.outcomes[k].passed = <<FALSE>>
                /\ (rules[k].type = <<"format">> /\
                    (~Has(rules[k].format) \/ Val(rules[k].format) \notin C13_KnownFormats)) =>
                     validation.outcomes[k].passed = <<FALSE>>

----------------------------------------------------------------------------
(* C14: in every recorded rule validation, a contains rule passed exactly   *)
(* when at least one of its keywords occurs in the response regardless of   *)
(* letter case, a not_contains rule passed exactly when none does, and two  *)
(* such rules of one test case with the same keyword set have opposite      *)
(* outcomes; with no keywords contains fails and not_contains passes.       *)
C14_CasePairs == {<<"B", "b">>, <<"N", "n">>, <<"O", "o">>}

C14_Occurs(keyword, response) ==
    \E at \in 0..(Len(response) - Len(keyword)) :
        \A k \in 1..Len(keyword) :
            \/ response[at + k] = keyword[k]
            \/ <<response[at + k], keyword[k]>> \in C14_CasePairs
            \/ <<keyword[k], response[at + k]>> \in C14_CasePairs

C14_Keywords(rule) == IF rule.keywords = <<>> THEN <<>> ELSE rule.keywords[1]

C14_AnyOccurs(rule, response) ==
    \E k \in 1..Len(C14_Keywords(rule)) : C14_Occurs(C14_Keywords(rule)[k], response)

C14_ContainsRules ==
    \A i \in 1..Len(acc_results) :
        LET rules == IF test_cases[i].rules = <<>> THEN <<>> ELSE test_cases[i].rules[1]
            response == acc_results[i].generated[1]
            outcomes == acc_results[i].rule_validation[1]
        IN \A k \in 1..Len(rules) :
             /\ rules[k].type = <<"contains">> =>
                  (outcomes[k].passed = <<TRUE>> <=> C14_AnyOccurs(rules[k], response))
             /\ rules[k].type = <<"not_contains">> =>
                  (outcomes[k].passed = <<TRUE>> <=> ~C14_AnyOccurs(rules[k], response))
             /\ \A j \in 1..Len(rules) :
                  (/\ rules[k].type = <<"contains">>
                   /\ rules[j].type = <<"not_contains">>
                   /\ C14_Keywords(rules[k]) = C14_Keywords(rules[j]))
                  => outcomes[k].passed # outcomes[j].passed
             /\ (rules[k].type = <<"contains">> /\ C14_Keywords(rules[k]) = <<>>) =>
                  outcomes[k].passed = <<FALSE>>
             /\ (rules[k].type = <<"not_contains">> /\ C14_Keywords(rules[k]) = <<>>) =>
                  outcomes[k].passed = <<TRUE>>

C14_Witness ==
    \E i \in 1..Len(acc_results) :
        /\ test_cases[i].test_id = <<"test_008">>
        /\ acc_results[i].generated = << <<"7", " ", "d", "o", "l", "l", "a", "r", "s">> >>
        /\ acc_results[i].rule_validation[1][4].passed = <<TRUE>>
        /\ acc_results[i].rule_validation[1][5].passed = <<FALSE>>
        /\ acc_results[i].rule_validation[1][6].passed = <<FALSE>>
        /\ acc_results[i].rule_validation[1][7].passed = <<TRUE>>

----------------------------------------------------------------------------
(* C15: in every test result the runner has produced, passed equals         *)
(* similarity_passed and every rule outcome passed, where                   *)
(* similarity_passed says that the similarity is at least the threshold     *)
(* recorded in the metrics of that result; a test case without rules        *)
(* passes exactly when similarity_passed.                                   *)
C15_PassedFlag ==
    \A i \in 1..Len(acc_results) :
        LET metrics == acc_results[i].metrics[1]
            outcomes == acc_results[i].rule_validation[1]
            all_rules == \A k \in 1..Len(outcomes) : outcomes[k].passed = <<TRUE>>
        IN /\ metrics.similarity_passed =
                << metrics.semantic_similarity[1] >= metrics.similarity_threshold[1] >>
           /\ acc_results[i].passed =
                << metrics.similarity_passed = <<TRUE>> /\ all_rules >>
           /\ (test_cases[i].rules = <<>> \/ test_cases[i].rules = << <<>> >>) =>
                /\ outcomes = <<>>
                /\ acc_results[i].passed = metrics.similarity_passed

C15_Witness ==
    \E i, j \in 1..Len(acc_results) :
        /\ acc_results[i].metrics[1].semantic_similarity = acc_results[i].metrics[1].similarity_threshold
        /\ acc_results[i].metrics[1].similarity_passed = <<TRUE>>
        /\ acc_results[i].rule_validation[1] # <<>>
        /\ acc_results[i].passed = <<FALSE>>
        /\ test_cases[j].rules = <<>>
        /\ acc_results[j].passed = <<TRUE>>

----------------------------------------------------------------------------
(* C16: the report always has the decision line and every failed check;     *)
(* passed checks and warnings are in it only when verbose is true; the      *)
(* "All quality gates passed!" line is in it exactly when failed and        *)
(* warnings are both empty, whatever verbose is.                            *)
C16_Items(section) ==
    { k \in 1..Len(report_text[1]) :
        report_text[1][k].section = section /\ report_text[1][k].item # <<>> }

C16_Shown(section, entries) ==
    /\ Cardinality(C16_Items(section)) = Len(entries)
    /\ \A k \in 1..Len(entries) :
         \E n \in C16_Items(section) : report_text[1][n].item = <<entries[k]>>

C16_Report ==
    report_text # <<>> =>
        /\ Cardinality({ k \in 1..Len(report_text[1]) :
                           report_text[1][k].section = "decision" }) = 1
        /\ \E k \in 1..Len(report_text[1]) :
             /\ report_text[1][k].section = "decision"
             /\ report_text[1][k].text = get_decision(failed)
        /\ C16_Shown("failed", failed)
        /\ verbose => C16_Shown("passed", passed_checks) /\ C16_Shown("warnings", warnings)
        /\ ~verbose => C16_Items("passed") = {} /\ C16_Items("warnings") = {}
        /\ (\E k \in 1..Len(report_text[1]) :
               report_text[1][k].text = "All quality gates passed!")
             <=> (failed = <<>> /\ warnings = <<>>)

C16_Witness ==
    /\ report_text # <<>>
    /\ ~verbose
    /\ failed # <<>>
    /\ warnings # <<>>
    /\ passed_checks # <<>>
    /\ C16_Items("failed") # {}
    /\ C16_Items("warnings") = {}

----------------------------------------------------------------------------
(* C17: at every point of evaluate_all the accumulated results are the      *)
(* results of a prefix of the test cases, in input order, and passed_count  *)
(* is the number of accumulated results with passed = true; one step adds   *)
(* exactly the next test case's result and its count together.              *)
C17_PassedSoFar(rs) == Cardinality({ i \in 1..Len(rs) : rs[i].passed = <<TRUE>> })

C17_IdOf(test_case) ==
    IF test_case.test_id = <<>> THEN <<"unknown">> ELSE test_case.test_id

C17_Consistent ==
    /\ Len(acc_results) <= Len(test_cases)
    /\ \A i \in 1..Len(acc_results) :
         /\ acc_results[i].test_id = C17_IdOf(test_cases[i])
         /\ test_cases[i].input # <<>> => acc_results[i].input = test_cases[i].input
         /\ test_cases[i].expected # <<>> => acc_results[i].expected = test_cases[i].expected
    /\ passed_count = C17_PassedSoFar(acc_results)
    /\ summary # <<>> =>
         /\ Len(acc_results) = Len(test_cases)
         /\ summary[1].results = <<acc_results>>
         /\ summary[1].passed = <<passed_count>>

C17_Witness ==
    /\ rpc = "loop"
    /\ Len(test_cases) = 2
    /\ Len(acc_results) = 1
    /\ test_cases[1].test_id = <<"test_003">>
    /\ test_cases[2].test_id = <<"test_001">>
    /\ acc_results[1].test_id = <<"test_003">>
    /\ acc_results[1].passed = <<FALSE>>
    /\ passed_count = 0

----------------------------------------------------------------------------
(* C18: the semantic-similarity check counts at most one score per test     *)
(* result, the nested one when present and otherwise the flattened one;     *)
(* with no score it records a warning and returns true; otherwise it        *)
(* returns true exactly when the mean of the scores of the results that     *)
(* have one is at least min_semantic_similarity.                            *)
C18_Score(r) ==
    IF r.metrics # <<>> /\ r.metrics[1].semantic_similarity # <<>>
    THEN r.metrics[1].semantic_similarity
    ELSE r.semantic_similarity

C18_Results == IF results.results = <<>> THEN <<>> ELSE results.results[1]

C18_Scored == { i \in 1..Len(C18_Results) : C18_Score(C18_Results[i]) # <<>> }

RECURSIVE C18_Total(_)
C18_Total(indices) ==
    IF indices = {} THEN 0
    ELSE LET i == CHOOSE x \in indices : TRUE
         IN C18_Score(C18_Results[i])[1] + C18_Total(indices \ {i})

C18_Recorded(entries) == { k \in 1..Len(entries) : entries[k].check = "similarity" }

C18_MeanOfScores ==
    gpc = "check_hallucination_rate" =>
        /\ Len(checks) = 3
        /\ C18_Scored = {} =>
             /\ checks[3] = TRUE
             /\ Cardinality(C18_Recorded(warnings)) = 1
             /\ C18_Recorded(failed) = {}
             /\ C18_Recorded(passed_checks) = {}
        /\ C18_Scored # {} =>
             /\ checks[3] = (C18_Total(C18_Scored) >=
                               config.min_semantic_similarity * Cardinality(C18_Scored))
             /\ C18_Recorded(warnings) = {}
             /\ Cardinality(C18_Recorded(IF checks[3] THEN passed_checks ELSE failed)) = 1
             /\ C18_Recorded(IF checks[3] THEN failed ELSE passed_checks) = {}

C18_Witness ==
    /\ gpc = "check_hallucination_rate"
    /\ Len(C18_Results) = 2
    /\ Cardinality(C18_Scored) = 1
    /\ \E i \in C18_Scored :
         /\ C18_Results[i].semantic_similarity # <<>>
         /\ C18_Results[i].metrics # <<>>
         /\ C18_Results[i].metrics[1].semantic_similarity # <<>>
         /\ C18_Results[i].metrics[1].semantic_similarity # C18_Results[i].semantic_similarity
    /\ checks[3] = FALSE

----------------------------------------------------------------------------
(* C19: for every results file on which the checker with the default        *)
(* configuration returned a decision and the comment was built, the gate    *)
(* decision shown in the comment is the tier of the checker's decision.     *)
C19_Tier(shown) ==
    CASE shown = "APPROVED FOR MERGE" -> "APPROVED"
      [] shown = "CONDITIONAL APPROVAL" -> "CONDITIONAL"
      [] shown = "BLOCKED FROM MERGE" -> "BLOCKED"

C19_CommentShowsDecision ==
    (/\ pr_comment # <<>>
     /\ ~pr_comment[1].raised
     /\ ret # <<>>
     /\ config = DefaultConfig)
    => C19_Tier(pr_comment[1].decision) = get_decision(failed)

----------------------------------------------------------------------------
(* C20: every check that has run returned false exactly when it appended    *)
(* an entry to failed; hence when evaluate() returns, it returns true       *)
(* exactly when failed is empty, which is exactly when the decision is      *)
(* APPROVED.                                                                *)
C20_CheckNames == <<"pass_rate", "critical", "similarity", "hallucination">>

C20_Appended(name) == \E k \in 1..Len(failed) : failed[k].check = name

C20_ReturnAgrees ==
    /\ Len(checks) <= 4
    /\ \A k \in 1..Len(checks) : (checks[k] = FALSE) <=> C20_Appended(C20_CheckNames[k])
    /\ \A k \in (Len(checks) + 1)..4 : gpc # "raised" => ~C20_Appended(C20_CheckNames[k])
    /\ gpc = "returned" =>
         /\ Len(checks) = 4
         /\ (ret = <<TRUE>>) <=> (failed = <<>>)
         /\ (failed = <<>>) <=> (get_decision(failed) = "APPROVED")
         /\ (ret = <<FALSE>>) <=> (get_decision(failed) \in {"CONDITIONAL", "BLOCKED"})

C20_Witness ==
    /\ gpc = "returned"
    /\ ret = <<FALSE>>
    /\ checks = <<TRUE, FALSE, TRUE, TRUE>>
    /\ Len(failed) = 2
    /\ get_decision(failed) = "CONDITIONAL"

====
